---- MODULE Spec2Model ----
(***************************************************************************)
(* A model of schema_infer/core.py: the schema algebra (the variant        *)
(* dataclasses, their __repr__ and merge methods, UnionSchema.of), the      *)
(* inference functions (_infer_single, deduce_schema) and the coercion      *)
(* functions (the coerce methods, coerce_to_schema).                        *)
(*                                                                         *)
(* A Python str is a sequence of one-character strings, compared by code    *)
(* point as Python compares it.  A schema is a record tagged with its       *)
(* class; a Python value is a record tagged with its type.                  *)
(***************************************************************************)
EXTENDS Integers, Sequences, FiniteSets, TLC

\* ------------------------------------------------------------------ text

\* The characters of the model are the printable ASCII characters, the ASCII
\* whitespace controls and two characters beyond ASCII.  Each is a string of
\* one character, but for four that are written as names:
\*   VTab          U+000B, the vertical tab
\*   Backquote     U+0060, the grave accent
\*   Superscript2  U+00B2, a digit (str.isdigit) that is no decimal digit
\*   Arrow         U+2192, the arrow of MapSchema.__repr__
VTab == "VT"
Superscript2 == "^2"
Arrow == "->"
Backquote == "BQ"

\* The code points of the characters, as <<character, code>>.
CodePoints ==
    { <<"\t", 9>>, <<"\n", 10>>, <<VTab, 11>>, <<"\f", 12>>,
      <<"\r", 13>>, <<" ", 32>>, <<"!", 33>>, <<"\"", 34>>, <<"#", 35>>,
      <<"$", 36>>, <<"%", 37>>, <<"&", 38>>, <<"'", 39>>, <<"(", 40>>,
      <<")", 41>>, <<"*", 42>>, <<"+", 43>>, <<",", 44>>, <<"-", 45>>,
      <<".", 46>>, <<"/", 47>>, <<"0", 48>>, <<"1", 49>>, <<"2", 50>>,
      <<"3", 51>>, <<"4", 52>>, <<"5", 53>>, <<"6", 54>>, <<"7", 55>>,
      <<"8", 56>>, <<"9", 57>>, <<":", 58>>, <<";", 59>>, <<"<", 60>>,
      <<"=", 61>>, <<">", 62>>, <<"?", 63>>, <<"@", 64>>, <<"A", 65>>,
      <<"B", 66>>, <<"C", 67>>, <<"D", 68>>, <<"E", 69>>, <<"F", 70>>,
      <<"G", 71>>, <<"H", 72>>, <<"I", 73>>, <<"J", 74>>, <<"K", 75>>,
      <<"L", 76>>, <<"M", 77>>, <<"N", 78>>, <<"O", 79>>, <<"P", 80>>,
      <<"Q", 81>>, <<"R", 82>>, <<"S", 83>>, <<"T", 84>>, <<"U", 85>>,
      <<"V", 86>>, <<"W", 87>>, <<"X", 88>>, <<"Y", 89>>, <<"Z", 90>>,
      <<"[", 91>>, <<"\\", 92>>, <<"]", 93>>, <<"^", 94>>, <<"_", 95>>,
      <<Backquote, 96>>, <<"a", 97>>, <<"b", 98>>, <<"c", 99>>, <<"d", 100>>,
      <<"e", 101>>, <<"f", 102>>, <<"g", 103>>, <<"h", 104>>,
      <<"i", 105>>, <<"j", 106>>, <<"k", 107>>, <<"l", 108>>,
      <<"m", 109>>, <<"n", 110>>, <<"o", 111>>, <<"p", 112>>,
      <<"q", 113>>, <<"r", 114>>, <<"s", 115>>, <<"t", 116>>,
      <<"u", 117>>, <<"v", 118>>, <<"w", 119>>, <<"x", 120>>,
      <<"y", 121>>, <<"z", 122>>, <<"{", 123>>, <<"|", 124>>,
      <<"}", 125>>, <<"~", 126>>, <<Superscript2, 178>>, <<Arrow, 8594>> }

\* Python's ord(c)
ord(c) == (CHOOSE p \in CodePoints : p[1] = c)[2]

\* The letters, as <<lower case, upper case>>.
Letters ==
    { <<"a", "A">>, <<"b", "B">>, <<"c", "C">>, <<"d", "D">>, <<"e", "E">>,
      <<"f", "F">>, <<"g", "G">>, <<"h", "H">>, <<"i", "I">>, <<"j", "J">>,
      <<"k", "K">>, <<"l", "L">>, <<"m", "M">>, <<"n", "N">>, <<"o", "O">>,
      <<"p", "P">>, <<"q", "Q">>, <<"r", "R">>, <<"s", "S">>, <<"t", "T">>,
      <<"u", "U">>, <<"v", "V">>, <<"w", "W">>, <<"x", "X">>, <<"y", "Y">>,
      <<"z", "Z">> }

\* str.upper() and str.lower() of one character.
char_upper(c) ==
    IF c \in {p[1] : p \in Letters} THEN (CHOOSE p \in Letters : p[1] = c)[2]
    ELSE c

char_lower(c) ==
    IF c \in {p[2] : p \in Letters} THEN (CHOOSE p \in Letters : p[2] = c)[1]
    ELSE c

\* str.lower()
str_lower(s) == [i \in 1..Len(s) |-> char_lower(s[i])]

\* str.capitalize(): the first character upper case, the rest lower case.
str_capitalize(s) ==
    [i \in 1..Len(s) |-> IF i = 1 THEN char_upper(s[i]) ELSE char_lower(s[i])]

\* Python's a < b on str: at the first position where they differ, a has
\* ended or has the character of the smaller code point.
str_lt(a, b) ==
    \E i \in 1..Len(b) :
        /\ i <= Len(a) + 1
        /\ \A j \in 1..(i - 1) : a[j] = b[j]
        /\ (i = Len(a) + 1 \/ ord(a[i]) < ord(b[i]))

\* sep.join(parts)
RECURSIVE str_join(_, _)
str_join(sep, parts) ==
    IF parts = <<>> THEN <<>>
    ELSE IF Len(parts) = 1 THEN parts[1]
    ELSE str_join(sep, SubSeq(parts, 1, Len(parts) \div 2)) \o sep
            \o str_join(sep, SubSeq(parts, Len(parts) \div 2 + 1, Len(parts)))

\* sorted(keys) for a set of str: the least key, then the others sorted.
RECURSIVE sorted_keys(_)
least_first(k, keys) == <<k>> \o sorted_keys(keys \ {k})

sorted_keys(keys) ==
    IF keys = {} THEN <<>>
    ELSE least_first(CHOOSE x \in keys : \A y \in keys : x = y \/ str_lt(x, y),
                     keys)

\* ---------------------------------------------------------------- schemas

NullSchema == [tag |-> "Null"]
BoolSchema == [tag |-> "Bool"]
IntSchema == [tag |-> "Int"]
FloatSchema == [tag |-> "Float"]
StringSchema == [tag |-> "String"]
BytesSchema == [tag |-> "Bytes"]
DateSchema == [tag |-> "Date"]
DateTimeSchema == [tag |-> "DateTime"]

KindList == <<"l", "i", "s", "t">>
KindTuple == <<"t", "u", "p", "l", "e">>
KindSet == <<"s", "e", "t">>

ArraySchema(items, kind) == [tag |-> "Array", items |-> items, kind |-> kind]
MapSchema(key, value) == [tag |-> "Map", key |-> key, value |-> value]
ObjectSchema(properties, optional) ==
    [tag |-> "Object", properties |-> properties, optional |-> optional]
UnionSchema(variants) == [tag |-> "Union", variants |-> variants]

\* The __repr__ of each class.
RECURSIVE repr(_)

\* The "name: schema" parts of ObjectSchema.__repr__, for the names ks.
property_reprs(s, ks) ==
    [i \in DOMAIN ks |->
        ks[i] \o (IF ks[i] \in s.optional THEN <<"?">> ELSE <<>>)
              \o <<":", " ">> \o repr(s.properties[ks[i]])]

repr(s) ==
    CASE s.tag = "Null" -> <<"N", "u", "l", "l">>
      [] s.tag = "Bool" -> <<"B", "o", "o", "l">>
      [] s.tag = "Int" -> <<"I", "n", "t">>
      [] s.tag = "Float" -> <<"F", "l", "o", "a", "t">>
      [] s.tag = "String" -> <<"S", "t", "r", "i", "n", "g">>
      [] s.tag = "Bytes" -> <<"B", "y", "t", "e", "s">>
      [] s.tag = "Date" -> <<"D", "a", "t", "e">>
      [] s.tag = "DateTime" -> <<"D", "a", "t", "e", "T", "i", "m", "e">>
      [] s.tag = "Array" ->
            str_capitalize(s.kind) \o <<"[">> \o repr(s.items) \o <<"]">>
      [] s.tag = "Map" ->
            <<"M", "a", "p", "[">> \o repr(s.key) \o <<" ", Arrow, " ">>
                \o repr(s.value) \o <<"]">>
      [] s.tag = "Object" ->
            <<"{">>
            \o str_join(<<",", " ">>,
                        property_reprs(s, sorted_keys(DOMAIN s.properties)))
            \o <<"}">>
      [] s.tag = "Union" ->
            str_join(<<" ", "|", " ">>,
                     [i \in 1..Len(s.variants) |-> repr(s.variants[i])])

schema_repr(schema) == repr(schema)

\* A _flatten that does not descend into a Union.
UnionSchema_flatten_shallow(s, acc) == Append(acc, s)

\* UnionSchema._flatten: the non-Union leaves of s appended to acc.
RECURSIVE UnionSchema_flatten(_, _)
RECURSIVE flatten_all(_, _)
flatten_all(schemas, acc) ==
    IF schemas = <<>> THEN acc
    ELSE flatten_all(Tail(schemas), UnionSchema_flatten(Head(schemas), acc))

UnionSchema_flatten(s, acc) ==
    IF s.tag = "Union" THEN flatten_all(s.variants, acc)
    ELSE Append(acc, s)

\* A dict as the sequence of its <<key, value>> pairs in insertion order:
\* d[k] = v keeps the place of a key already present and appends a new one.
dict_has(d, k) == \E i \in DOMAIN d : d[i][1] = k

dict_get(d, k) == d[CHOOSE i \in DOMAIN d : d[i][1] = k][2]

dict_set(d, k, v) ==
    IF dict_has(d, k)
    THEN [i \in DOMAIN d |-> IF d[i][1] = k THEN <<k, v>> ELSE d[i]]
    ELSE Append(d, <<k, v>>)

\* {repr(s): s for s in flat}
RECURSIVE uniq_by_repr(_, _)
uniq_by_repr(flat, d) ==
    IF flat = <<>> THEN d
    ELSE uniq_by_repr(Tail(flat), dict_set(d, repr(Head(flat)), Head(flat)))

\* The values left in the order of their insertion.
sorted_by_repr_unsorted(values) == values

\* The values of a sequence of <<key, value>> pairs (of a dict: d.values()).
values_of(pairs) == [i \in DOMAIN pairs |-> pairs[i][2]]

\* seq with x put at the place at.
insert_at(seq, at, x) ==
    SubSeq(seq, 1, at - 1) \o <<x>> \o SubSeq(seq, at, Len(seq))

\* A stable sort of <<key, value>> pairs by key: each pair in turn is put
\* after the pairs whose key is not above its own.
RECURSIVE sorted_by_key(_)
insert_by_key(sorted, p) ==
    insert_at(sorted,
              1 + Cardinality({i \in DOMAIN sorted : ~str_lt(p[1], sorted[i][1])}),
              p)

sorted_by_key(keyed) ==
    IF keyed = <<>> THEN <<>>
    ELSE insert_by_key(sorted_by_key(SubSeq(keyed, 1, Len(keyed) - 1)),
                       keyed[Len(keyed)])

\* [(repr(v), v) for v in values]
RECURSIVE keyed_by_repr(_)
keyed_by_repr(values) ==
    IF values = <<>> THEN <<>>
    ELSE <<<<repr(Head(values)), Head(values)>>>> \o keyed_by_repr(Tail(values))

\* sorted(values, key=repr): the key of each value is computed once.
sorted_by_repr(values) == values_of(sorted_by_key(keyed_by_repr(values)))

\* A widening step that keeps Int beside Float.
widen_kept_int(uniq) == uniq

\* The numeric widening of UnionSchema.of: uniq without its Int entries when
\* it holds both an Int and a Float.
widen(uniq) ==
    LET has_int == \E i \in DOMAIN uniq : uniq[i][2].tag = "Int"
        has_float == \E i \in DOMAIN uniq : uniq[i][2].tag = "Float"
    IN  IF has_int /\ has_float
        THEN SelectSeq(uniq, LAMBDA p : p[2].tag # "Int")
        ELSE uniq

\* The end of UnionSchema.of: the only value left, or the Union of the
\* sorted values.
single_or_union(values) ==
    IF Len(values) = 1 THEN values[1] ELSE UnionSchema(sorted_by_repr(values))

\* UnionSchema.of(*schemas)
UnionSchema_of(schemas) ==
    single_or_union(
        values_of(widen(uniq_by_repr(flatten_all(schemas, <<>>), <<>>))))

\* Schema.merge
Schema_merge(self, other) ==
    IF self = other THEN self ELSE UnionSchema_of(<<self, other>>)

RECURSIVE merge(_, _)

\* ArraySchema.merge
ArraySchema_merge(self, other) ==
    IF other.tag = "Array" /\ self.kind = other.kind
    THEN ArraySchema(merge(self.items, other.items), self.kind)
    ELSE Schema_merge(self, other)

\* MapSchema.merge
MapSchema_merge(self, other) ==
    IF other.tag = "Map"
    THEN MapSchema(merge(self.key, other.key), merge(self.value, other.value))
    ELSE Schema_merge(self, other)

\* An optional set that marks every key, and one that forgets the operands'.
merged_optional_every_key(self, other) ==
    DOMAIN self.properties \cup DOMAIN other.properties

merged_optional_forgetful(self, other) ==
    (DOMAIN self.properties \ DOMAIN other.properties)
        \cup (DOMAIN other.properties \ DOMAIN self.properties)

\* The optional set ObjectSchema.merge builds: the keys only one operand
\* has, then both operands' optional sets.
merged_optional(self, other) ==
    LET only_one == (DOMAIN self.properties \ DOMAIN other.properties)
                    \cup (DOMAIN other.properties \ DOMAIN self.properties)
    IN  only_one \cup self.optional \cup other.optional

\* ObjectSchema.merge
ObjectSchema_merge(self, other) ==
    IF other.tag # "Object" THEN Schema_merge(self, other)
    ELSE LET keys == DOMAIN self.properties \cup DOMAIN other.properties
             both == DOMAIN self.properties \cap DOMAIN other.properties
             props == [k \in keys |->
                         IF k \in both
                         THEN merge(self.properties[k], other.properties[k])
                         ELSE IF k \in DOMAIN self.properties
                         THEN self.properties[k]
                         ELSE other.properties[k]]
         IN  ObjectSchema(props, merged_optional(self, other))

\* self.merge(other), dispatched on the class of self.
merge(self, other) ==
    CASE self.tag = "Array" -> ArraySchema_merge(self, other)
      [] self.tag = "Map" -> MapSchema_merge(self, other)
      [] self.tag = "Object" -> ObjectSchema_merge(self, other)
      [] OTHER -> Schema_merge(self, other)

\* ----------------------------------------------------------- Python values

\* A value is a record tagged with its type.
\*   int       its sign and the decimal digits of its magnitude, as str
\*             writes them (0 is "0", and never negative)
\*   float     finite: the sign and the decimal 0.d1 d2 ... dn * 10^point
\*             that repr shows, d1 and dn not "0" (0.0 and -0.0 have no
\*             digits and point 0); inf and -inf are PyNonFinite; a nan is
\*             PyNaN(id), id telling one nan object from another (x is y).
\*             Two floats are equal when their reprs are.  The decimal
\*             stands for the float's value where the program asks for it
\*             (is_integer, int, ==), which is exact for a float with a
\*             fractional part and for a whole one below 2^53; float(s)
\*             is exact for text of at most 15 significant digits that is
\*             zero or at least 1e-307 in magnitude.
\*   str       the sequence of its characters; bytes likewise, of ASCII
\*   date      its year, month and day; a datetime also its <<hour, minute,
\*             second>> (no microseconds, no time zone)
\*   list, tuple, set, frozenset
\*             the sequence of the elements in the order iteration over the
\*             value yields them
\*   dict      the sequence of its <<key, value>> items in insertion order
\*   object    an attribute bag (an object with a __dict__ and the default
\*             __eq__ and __hash__): its identity id, the items of
\*             vars(value) and the text its repr gives
\* A set the program builds is PyBuiltSet(members): its members as a set,
\* since the order in which iteration would yield them depends on their
\* hashes and the program never iterates over it.
PyNone == [t |-> "None"]
PyBool(b) == [t |-> "bool", b |-> b]
PyInt(neg, digits) == [t |-> "int", neg |-> neg, digits |-> digits]
PyFloat(neg, digits, point) ==
    [t |-> "float", neg |-> neg, digits |-> digits, point |-> point]
PyNonFinite(name) == [t |-> "float", nonfinite |-> name]
PyNaN(id) == [t |-> "float", nonfinite |-> "nan", id |-> id]
PyStr(s) == [t |-> "str", s |-> s]
PyBytes(data) == [t |-> "bytes", data |-> data]
PyDate(year, month, day) == [t |-> "date", ymd |-> <<year, month, day>>]
PyDateTime(year, month, day, hms) ==
    [t |-> "datetime", ymd |-> <<year, month, day>>, hms |-> hms]
PyList(elems) == [t |-> "list", elems |-> elems]
PyTuple(elems) == [t |-> "tuple", elems |-> elems]
PySet(elems) == [t |-> "set", elems |-> elems]
PyFrozenSet(elems) == [t |-> "frozenset", elems |-> elems]
PyDict(items) == [t |-> "dict", items |-> items]
PyObject(id, attrs, text) ==
    [t |-> "object", id |-> id, attrs |-> attrs, text |-> text]
PyBuiltSet(members) == [t |-> "set", members |-> members]

\* The dict ObjectSchema.coerce builds, as the set of its <<key, value>>
\* items.  Its order is the order of self.properties: the order of the keys
\* of a sample or, after a merge, the iteration order of a set of names,
\* which the model does not keep.
PyBuiltDict(pairs) == [t |-> "dict", pairs |-> pairs]

\* vars(value) of an attribute bag: the dict of its attributes.
vars(value) == PyDict(value.attrs)

\* ---------------------------------------------------------------- inference

\* The None of a variable of type "Schema | None".
NoSchema == [tag |-> "None"]

\* acc = s if acc is None else acc.merge(s)
merge_into(acc, s) == IF acc = NoSchema THEN s ELSE merge(acc, s)

RECURSIVE infer_single(_)

\* The loops of _infer_single that fold the schemas of a sequence of values.
RECURSIVE infer_fold(_, _)
infer_fold(values, acc) ==
    IF values = <<>> THEN acc
    ELSE infer_fold(Tail(values), merge_into(acc, infer_single(Head(values))))

\* _infer_single
infer_single(value) ==
    CASE value.t = "None" -> NullSchema
      [] value.t = "bool" -> BoolSchema
      [] value.t = "int" -> IntSchema
      [] value.t = "float" -> FloatSchema
      [] value.t = "str" -> StringSchema
      [] value.t = "bytes" -> BytesSchema
      [] value.t = "datetime" -> DateTimeSchema
      [] value.t = "date" -> DateSchema
      [] value.t = "dict" ->
            LET items == value.items
            IN  IF \A i \in DOMAIN items : items[i][1].t = "str"
                THEN LET names == {items[i][1].s : i \in DOMAIN items}
                         val(k) == dict_get(items, PyStr(k))
                         props == [k \in names |->
                                     IF val(k) = PyNone THEN NullSchema
                                     ELSE infer_single(val(k))]
                         optional == {k \in names : val(k) = PyNone}
                     IN  ObjectSchema(props, optional)
                ELSE LET key_s == infer_fold([i \in DOMAIN items |-> items[i][1]],
                                             NoSchema)
                         val_s == infer_fold([i \in DOMAIN items |-> items[i][2]],
                                             NoSchema)
                     IN  IF key_s = NoSchema
                         THEN MapSchema(StringSchema, NullSchema)
                         ELSE MapSchema(key_s, IF val_s # NoSchema THEN val_s
                                               ELSE NullSchema)
      [] value.t \in {"list", "tuple", "set", "frozenset"} ->
            LET kind == IF value.t = "list" THEN KindList
                        ELSE IF value.t = "tuple" THEN KindTuple
                        ELSE KindSet
                item_schema == infer_fold(value.elems, NoSchema)
            IN  ArraySchema(IF item_schema = NoSchema THEN NullSchema
                            ELSE item_schema, kind)
      [] value.t = "object" -> infer_single(vars(value))
      [] OTHER -> StringSchema

\* The state of deduce_schema's loop: the locals merged and all_null.
deduce_start == [merged |-> NoSchema, all_null |-> TRUE]

\* One iteration of deduce_schema's loop, for the sample v.
deduce_step(loop, v) ==
    LET s == infer_single(v)
    IN  [merged |-> merge_into(loop.merged, s),
         all_null |-> loop.all_null /\ s.tag = "Null"]

\* What deduce_schema returns when its loop ends in this state.
deduce_return(loop) ==
    IF loop.merged = NoSchema \/ loop.all_null THEN NullSchema ELSE loop.merged

RECURSIVE deduce_loop(_, _)
deduce_loop(values, loop) ==
    IF values = <<>> THEN loop
    ELSE deduce_loop(Tail(values), deduce_step(loop, Head(values)))

\* deduce_schema
deduce_schema(values) == deduce_return(deduce_loop(values, deduce_start))

\* ------------------------------------------------- conversions of values

\* What a call does: it returns val, or it raises one of errs (more than one
\* where the exception depends on the iteration order of a dict, which the
\* model does not fix).
Return(val) == [ok |-> TRUE, val |-> val]
Raise(errs) == [ok |-> FALSE, errs |-> errs]

TypeError == [exc |-> "TypeError", field |-> <<>>]
ValueError == [exc |-> "ValueError", field |-> <<>>]
OverflowError == [exc |-> "OverflowError", field |-> <<>>]
\* KeyError(f"Missing required field: {k}")
KeyError(k) == [exc |-> "KeyError", field |-> k]

\* The decimal digits, and the characters str.isdigit accepts.
Digits == <<"0", "1", "2", "3", "4", "5", "6", "7", "8", "9">>

is_decimal(c) == \E i \in DOMAIN Digits : Digits[i] = c

is_digit(c) == is_decimal(c) \/ c = Superscript2

digit_value(c) == (CHOOSE i \in DOMAIN Digits : Digits[i] = c) - 1

\* The characters str.strip() removes (str.isspace).
Whitespace == {" ", "\t", "\n", VTab, "\f", "\r"}

\* str.strip()
str_strip(s) ==
    IF \A i \in DOMAIN s : s[i] \in Whitespace THEN <<>>
    ELSE SubSeq(s,
                CHOOSE i \in DOMAIN s :
                    s[i] \notin Whitespace /\ \A j \in 1..(i - 1) : s[j] \in Whitespace,
                CHOOSE i \in DOMAIN s :
                    s[i] \notin Whitespace
                        /\ \A j \in (i + 1)..Len(s) : s[j] \in Whitespace)

\* str.isdigit()
str_isdigit(s) == s # <<>> /\ \A i \in DOMAIN s : is_digit(s[i])

\* str.startswith(prefix)
str_startswith(s, prefix) ==
    Len(s) >= Len(prefix) /\ SubSeq(s, 1, Len(prefix)) = prefix

\* The number a run of decimal digits denotes.
RECURSIVE digits_value(_)
digits_value(s) ==
    IF s = <<>> THEN 0
    ELSE 10 * digits_value(SubSeq(s, 1, Len(s) - 1)) + digit_value(s[Len(s)])

\* digits without its leading zeros, and without its trailing zeros.
lstrip_zeros(digits) ==
    IF \A i \in DOMAIN digits : digits[i] = "0" THEN <<>>
    ELSE SubSeq(digits,
                CHOOSE i \in DOMAIN digits :
                    digits[i] # "0" /\ \A j \in 1..(i - 1) : digits[j] = "0",
                Len(digits))

rstrip_zeros(digits) ==
    IF \A i \in DOMAIN digits : digits[i] = "0" THEN <<>>
    ELSE SubSeq(digits, 1,
                CHOOSE i \in DOMAIN digits :
                    digits[i] # "0" /\ \A j \in (i + 1)..Len(digits) : digits[j] = "0")

\* n zeros.
zeros(n) == [i \in 1..n |-> "0"]

\* What int(s) and float(s) give for a text that is no number: ValueError.
Unparsed == [ok |-> FALSE]

\* sys.get_int_max_str_digits(): int(s) of more digits than this, and str
\* and repr of an int of more digits than this, raise ValueError.
MaxStrDigits == 4300

\* The int of a sign and a run of decimal digits.
int_norm(neg, digits) ==
    IF \A i \in DOMAIN digits : digits[i] = "0" THEN PyInt(FALSE, <<"0">>)
    ELSE PyInt(neg, lstrip_zeros(digits))

\* The digit separators of a numeric literal are well placed: each "_" is
\* between two decimal digits.
separators_ok(s) ==
    \A i \in DOMAIN s :
        s[i] = "_" => /\ i > 1 /\ is_decimal(s[i - 1])
                      /\ i < Len(s) /\ is_decimal(s[i + 1])

\* The int of a sign and the digits of a literal: [ok |-> TRUE, val |-> the
\* int], or Unparsed (ValueError) when a character is no decimal digit or
\* the digits, leading zeros counted, are more than MaxStrDigits.
int_of_digits(neg, digits) ==
    IF Len(digits) <= MaxStrDigits /\ \A i \in DOMAIN digits : is_decimal(digits[i])
    THEN [ok |-> TRUE, val |-> int_norm(neg, digits)]
    ELSE Unparsed

\* int(s): [ok |-> TRUE, val |-> the int] or Unparsed (ValueError).  The
\* grammar, once the whitespace around s is stripped: a sign, then decimal
\* digits with separators.
int_of_str(s) ==
    LET stripped == str_strip(s)
        signed == stripped # <<>> /\ Head(stripped) \in {"+", "-"}
        body == IF signed THEN Tail(stripped) ELSE stripped
    IN  IF body # <<>> /\ separators_ok(body)
        THEN int_of_digits(signed /\ Head(stripped) = "-",
                           SelectSeq(body, LAMBDA c : c # "_"))
        ELSE Unparsed

\* str(n) for a natural number of the model (a field of a date, an
\* exponent).
RECURSIVE nat_str(_)
nat_str(n) ==
    IF n < 10 THEN <<Digits[n + 1]>>
    ELSE nat_str(n \div 10) \o <<Digits[(n % 10) + 1]>>

\* n zero-padded to the given width.
RECURSIVE zero_pad(_, _)
zero_pad(s, width) == IF Len(s) >= width THEN s ELSE zero_pad(<<"0">> \o s, width)

\* The float 0.digits * 10^point, digits any run of decimal digits.
float_norm(neg, digits, point) ==
    IF \A i \in DOMAIN digits : digits[i] = "0" THEN PyFloat(neg, <<>>, 0)
    ELSE PyFloat(neg, rstrip_zeros(lstrip_zeros(digits)),
                 point - (Len(digits) - Len(lstrip_zeros(digits))))

\* ---- arithmetic on decimals.  A natural number is the run of its decimal
\* digits without leading zeros, zero the empty run.

\* a * s + b * t + c for runs of digits a and b of one length, digit by
\* digit (b is not read when t = 0; s and t are below 2^27 in magnitude):
\* the carry out of the digits, negative when borrowed, and then as many
\* digits as a has.  The lower half is worked out first: it carries into
\* the higher.
RECURSIVE fma_digits(_, _, _, _, _)
fma_high(a, s, b, t, low) ==
    IF low = <<>> THEN low ELSE fma_digits(a, s, b, t, Head(low)) \o Tail(low)

fma_digits(a, s, b, t, c) ==
    IF a = <<>> THEN <<c>>
    ELSE IF Len(a) = 1
    THEN LET v == digit_value(a[1]) * s + (IF t = 0 THEN 0 ELSE digit_value(b[1]) * t) + c
         IN  <<v \div 10, Digits[(v % 10) + 1]>>
    ELSE fma_high(SubSeq(a, 1, Len(a) \div 2), s,
                  IF t = 0 THEN b ELSE SubSeq(b, 1, Len(a) \div 2), t,
                  fma_digits(SubSeq(a, Len(a) \div 2 + 1, Len(a)), s,
                             IF t = 0 THEN b ELSE SubSeq(b, Len(a) \div 2 + 1, Len(a)),
                             t, c))

\* The natural number a * s + b * t + c, for b no longer than a and a
\* result that is not negative.
nat_fma(a, s, b, t, c) ==
    LET r == fma_digits(a, s, IF t = 0 THEN b ELSE zeros(Len(a) - Len(b)) \o b, t, c)
    IN  lstrip_zeros(nat_str(Head(r)) \o Tail(r))

\* a <= b for natural numbers.
nat_le(a, b) ==
    IF Len(a) # Len(b) THEN Len(a) < Len(b)
    ELSE \/ a = b
         \/ LET i == CHOOSE i \in DOMAIN a :
                        a[i] # b[i] /\ \A j \in 1..(i - 1) : a[j] = b[j]
            IN  digit_value(a[i]) < digit_value(b[i])

\* n * base^k, taken base^step at a time.
RECURSIVE times_pow(_, _, _, _)
times_pow(n, base, step, k) ==
    IF n = <<>> THEN n
    ELSE IF k <= step THEN nat_fma(n, base ^ k, <<>>, 0, 0)
    ELSE times_pow(times_pow(n, base, step, step * ((k \div step + 1) \div 2)),
                   base, step, k - step * ((k \div step + 1) \div 2))

\* ---- binary64, the format of a Python float: 53 bits of mantissa, a
\* value mant * 2^exp with mant < 2^53 and exp from -1074 to 971.

\* Long division in binary: the next bits, up to k in all, of the quotient
\* r / d for r < 2 * d, and the remainder.
RECURSIVE div_bits(_, _, _, _)
div_bits(r, d, bits, k) ==
    IF Len(bits) = k THEN [bits |-> bits, rem |-> r]
    ELSE IF nat_le(d, r)
    THEN div_bits(nat_fma(r, 2, d, -2, 0), d, Append(bits, 1), k)
    ELSE div_bits(nat_fma(r, 2, <<>>, 0, 0), d, Append(bits, 0), k)

\* The number a run of at most 30 bits denotes.
RECURSIVE bits_value(_)
bits_value(bits) ==
    IF bits = <<>> THEN 0
    ELSE IF Len(bits) = 1 THEN bits[1]
    ELSE bits_value(SubSeq(bits, 1, Len(bits) \div 2)) * 2 ^ (Len(bits) - Len(bits) \div 2)
            + bits_value(SubSeq(bits, Len(bits) \div 2 + 1, Len(bits)))

\* The double nearest the quotient whose 61 bits are given, the 60th of
\* weight 2^e0, with the remainder of the division: the mantissa is the
\* bits down to the 53rd from the first 1, or to the 60th when that comes
\* before, and it is rounded half to even on the bits and the remainder
\* below it.  A mantissa rounded up to 2^53 is 2^52 with the next exponent.
double_round(bits, rem, e0) ==
    LET first == IF \E i \in 1..60 : bits[i] = 1
                 THEN CHOOSE i \in 1..60 :
                        bits[i] = 1 /\ \A j \in 1..(i - 1) : bits[j] = 0
                 ELSE 60
        last == IF first + 52 < 60 THEN first + 52 ELSE 60
        up == /\ bits[last + 1] = 1
              /\ \/ bits[last] = 1
                 \/ rem # <<>>
                 \/ \E i \in (last + 2)..61 : bits[i] = 1
    IN  IF up /\ \A i \in (last - 52)..last : bits[i] = 1
        THEN [mant |-> times_pow(<<"1">>, 2, 27, 52), exp |-> e0 + (60 - last) + 1]
        ELSE [mant |-> nat_fma(lstrip_zeros(nat_str(bits_value(SubSeq(bits, 1, last - 27)))),
                               2 ^ 27, <<>>, 0,
                               bits_value(SubSeq(bits, last - 26, last))
                                    + (IF up THEN 1 ELSE 0)),
              exp |-> e0 + (60 - last)]

\* The double nearest 0.digits * 10^point, for digits that begin and end
\* with a digit other than 0 and point from -330 to 310, as [mant, exp]: it
\* is zero when mant is, and beyond the doubles when exp is above 971.  The
\* decimal is N / M for N the digits and M a power of ten, or the other
\* way round; 2^t is at most it, and at least a 64th of it, as log2(10) is
\* 3.321928...; its quotient by 2^e0 is below 2^60.
double_of(digits, point) ==
    LET q == point - Len(digits)
        t == ((point - 1) * 3321928) \div 1000000 - 1
        e0 == IF t - 52 < -1074 THEN -1074 ELSE t - 52
        division ==
            div_bits(times_pow(digits \o zeros(IF q > 0 THEN q ELSE 0), 2, 27,
                               IF e0 < 0 THEN 0 - e0 ELSE 0),
                     times_pow(<<"1">> \o zeros(IF q < 0 THEN 0 - q ELSE 0), 2, 27,
                               (IF e0 > 0 THEN e0 ELSE 0) + 59),
                     <<>>, 61)
    IN  double_round(division.bits, division.rem, e0)

\* The float of the fewest digits in the interval from L to H around C, its
\* ends in it when closed, and the nearest C of them: C, L and H natural
\* numbers in units of 10^k10.  It is C cut after n digits or the next
\* number of n digits, for the least n that has one of the two in the
\* interval.
shortest_between(neg, C, L, H, closed, k10) ==
    LET w == Len(H)
        Cp == zeros(w - Len(C)) \o C
        down(n) == SubSeq(Cp, 1, n)
        up(n) == nat_fma(down(n), 1, <<>>, 0, 1)
        inside(x, n) ==
            LET v == lstrip_zeros(x \o zeros(w - n))
            IN  IF closed THEN nat_le(L, v) /\ nat_le(v, H)
                ELSE ~nat_le(v, L) /\ ~nat_le(H, v)
        ok(n) == inside(down(n), n) \/ inside(up(n), n)
        n == CHOOSE i \in 1..w : ok(i) /\ \A j \in 1..(i - 1) : ~ok(j)
        pick == IF ~inside(down(n), n) THEN up(n)
                ELSE IF ~inside(up(n), n) THEN down(n)
                ELSE IF n < w /\ digit_value(Cp[n + 1]) >= 5 THEN up(n)
                ELSE down(n)
    IN  float_norm(neg, pick, Len(pick) + (w - n) + k10)

\* The float whose value is mant * 2^exp, as repr writes it: the decimal of
\* the fewest digits that is nearer this double than any other.  Those
\* decimals lie within half the distance to the next double on each side,
\* which below a power of two other than the least is half as far away; a
\* decimal half way belongs to the double of the even mantissa.  Everything
\* is counted in units of 2^(exp - 2), that is 10^(exp - 2) * 5^(2 - exp)
\* when exp is below 2.
double_repr(neg, mant, exp) ==
    LET W == IF exp >= 2 THEN times_pow(<<"1">>, 2, 27, exp - 2)
             ELSE times_pow(<<"1">>, 5, 11, 2 - exp)
        C == IF exp >= 2 THEN times_pow(nat_fma(mant, 4, <<>>, 0, 0), 2, 27, exp - 2)
             ELSE times_pow(nat_fma(mant, 4, <<>>, 0, 0), 5, 11, 2 - exp)
    IN  shortest_between(neg, C,
                         nat_fma(C, 1, W,
                                 IF mant = times_pow(<<"1">>, 2, 27, 52) /\ exp > -1074
                                 THEN -1 ELSE -2,
                                 0),
                         nat_fma(C, 1, W, 2, 0),
                         digit_value(mant[Len(mant)]) % 2 = 0,
                         IF exp >= 2 THEN 0 ELSE exp - 2)

is_finite(f) == "nonfinite" \notin DOMAIN f

\* The double nearest the decimal f, as the float repr shows: infinity when
\* there is none, zero when it is nearest.  A decimal of at most 15 digits
\* from 1e-307 to 1e308 is the repr of the double nearest it; digits after
\* the 800th only tell whether the decimal is above a number of 800 digits,
\* and no double, and no number half way between two, has so many.
float_round(f) ==
    IF f.digits = <<>> \/ (Len(f.digits) <= 15 /\ f.point \in -306..308) THEN f
    ELSE IF f.point > 310 THEN PyNonFinite(IF f.neg THEN "-inf" ELSE "inf")
    ELSE IF f.point < -330 THEN PyFloat(f.neg, <<>>, 0)
    ELSE LET d == double_of(IF Len(f.digits) > 800
                            THEN SubSeq(f.digits, 1, 800) \o <<"1">>
                            ELSE f.digits,
                            f.point)
         IN  IF d.mant = <<>> THEN PyFloat(f.neg, <<>>, 0)
             ELSE IF d.exp > 971 THEN PyNonFinite(IF f.neg THEN "-inf" ELSE "inf")
             ELSE double_repr(f.neg, d.mant, d.exp)

\* float(i) for an int: OverflowError when no double is nearest.
float_of_int(i) ==
    LET f == float_round(float_norm(i.neg, i.digits, Len(i.digits)))
    IN  IF is_finite(f) THEN Return(f) ELSE Raise({OverflowError})

\* float.is_integer(): the repr of a whole float shows no digit after the
\* point.
float_is_integer(f) == is_finite(f) /\ f.point >= Len(f.digits)

\* int(f) for a float with is_integer(): the exact value of the double,
\* which the repr shows in full up to 16 digits and which is mant * 2^exp
\* beyond.
int_of_float(f) ==
    IF f.point <= 16
    THEN int_norm(f.neg, f.digits \o zeros(f.point - Len(f.digits)))
    ELSE LET d == double_of(f.digits, f.point)
         IN  int_norm(f.neg, times_pow(d.mant, 2, 27, d.exp))

\* repr of a finite float other than zero with an exponent, as
\* float_repr_style 'short' writes it.
float_repr_exponent(digits, point) ==
    <<Head(digits)>>
        \o (IF Len(digits) > 1 THEN <<".">> \o Tail(digits) ELSE <<>>)
        \o <<"e">> \o (IF point < 1 THEN <<"-">> ELSE <<"+">>)
        \o zero_pad(nat_str(IF point < 1 THEN 1 - point ELSE point - 1), 2)

\* repr of a finite float in positional notation.
float_repr_positional(digits, point) ==
    IF point <= 0 THEN <<"0", ".">> \o zeros(0 - point) \o digits
    ELSE IF point >= Len(digits)
    THEN digits \o zeros(point - Len(digits)) \o <<".", "0">>
    ELSE SubSeq(digits, 1, point) \o <<".">>
            \o SubSeq(digits, point + 1, Len(digits))

\* repr(f) for a float: an exponent when the decimal point lies more than
\* 3 places before the first digit or more than 16 after it.
float_repr(f) ==
    IF ~is_finite(f)
    THEN CASE f.nonfinite = "inf" -> <<"i", "n", "f">>
           [] f.nonfinite = "-inf" -> <<"-", "i", "n", "f">>
           [] OTHER -> <<"n", "a", "n">>
    ELSE (IF f.neg THEN <<"-">> ELSE <<>>)
            \o (IF f.digits = <<>> THEN <<"0", ".", "0">>
                ELSE IF f.point < -3 \/ f.point > 16
                THEN float_repr_exponent(f.digits, f.point)
                ELSE float_repr_positional(f.digits, f.point))

\* The index of the first c in s from the given index on, or Len(s) + 1.
str_find(s, c, from) ==
    IF \E i \in from..Len(s) : s[i] = c
    THEN CHOOSE i \in from..Len(s) : s[i] = c /\ \A j \in from..(i - 1) : s[j] # c
    ELSE Len(s) + 1

\* The exponent of a float literal, expo the literal from its e on or
\* empty: [ok |-> TRUE, val |-> its value], or Unparsed.  float() reads an
\* exponent of more than nine significant digits as 1100000000, the most it
\* keeps.
exponent_of_str(expo) ==
    LET signed == Len(expo) > 1 /\ expo[2] \in {"+", "-"}
        digits == SubSeq(expo, IF signed THEN 3 ELSE 2, Len(expo))
        magnitude == IF Len(lstrip_zeros(digits)) > 9 THEN 1100000000
                     ELSE digits_value(lstrip_zeros(digits))
    IN  IF expo = <<>> THEN [ok |-> TRUE, val |-> 0]
        ELSE IF digits # <<>> /\ \A i \in DOMAIN digits : is_decimal(digits[i])
        THEN [ok |-> TRUE,
              val |-> IF expo[2] = "-" THEN 0 - magnitude ELSE magnitude]
        ELSE Unparsed

\* float(s) refuses a literal of more digits than this, leading zeros
\* aside, or of more digits than this after the point (ValueError).
MaxDigits == 1000000000

\* float(s) for s without digit separators, neg its sign and body what
\* follows the sign, in lower case.
float_of_body(neg, body) ==
    LET epos == str_find(body, "e", 1)
        mant == SubSeq(body, 1, epos - 1)
        x == exponent_of_str(SubSeq(body, epos, Len(body)))
        ppos == str_find(mant, ".", 1)
        whole == SubSeq(mant, 1, ppos - 1)
        frac == SubSeq(mant, ppos + 1, Len(mant))
    IN  IF body \in {<<"i", "n", "f">>, <<"i", "n", "f", "i", "n", "i", "t", "y">>}
        THEN [ok |-> TRUE, val |-> PyNonFinite(IF neg THEN "-inf" ELSE "inf")]
        ELSE IF body = <<"n", "a", "n">> THEN [ok |-> TRUE, val |-> PyNaN(0)]
        ELSE IF /\ x.ok
                /\ whole \o frac # <<>>
                /\ Len(lstrip_zeros(whole \o frac)) <= MaxDigits
                /\ Len(frac) <= MaxDigits
                /\ \A i \in DOMAIN whole : is_decimal(whole[i])
                /\ \A i \in DOMAIN frac : is_decimal(frac[i])
        THEN [ok |-> TRUE,
              val |-> float_round(float_norm(neg, whole \o frac,
                                             Len(whole) + x.val))]
        ELSE Unparsed

\* float(s): [ok |-> TRUE, val |-> the float] or Unparsed (ValueError).  The
\* grammar, once the whitespace around s is stripped: a sign, then inf,
\* infinity or nan in any case, or decimal digits with an optional point and
\* an optional exponent e[sign]digits, the digits with separators.  The nan
\* is a new object each time; no input value has its id, 0.
float_of_str(s) ==
    LET stripped == str_strip(s)
        signed == stripped # <<>> /\ Head(stripped) \in {"+", "-"}
    IN  IF separators_ok(stripped)
        THEN float_of_body(signed /\ Head(stripped) = "-",
                           str_lower(SelectSeq(IF signed THEN Tail(stripped)
                                               ELSE stripped,
                                               LAMBDA c : c # "_")))
        ELSE Unparsed

\* bool(value) for an int or a float.
truthy(value) ==
    IF value.t = "int" THEN value.digits # <<"0">>
    ELSE ~is_finite(value) \/ value.digits # <<>>

\* hash(value) succeeds: lists, dicts and sets are unhashable, a tuple is
\* hashable when its elements are.
RECURSIVE py_hashable(_)
py_hashable(value) ==
    CASE value.t \in {"list", "dict", "set"} -> FALSE
      [] value.t = "tuple" -> \A i \in DOMAIN value.elems : py_hashable(value.elems[i])
      [] OTHER -> TRUE

is_nan(value) ==
    value.t = "float" /\ ~is_finite(value) /\ value.nonfinite = "nan"

\* The int that a bool, an int or a float with is_integer() equals.
integer_of(value) ==
    CASE value.t = "bool" -> PyInt(FALSE, IF value.b THEN <<"1">> ELSE <<"0">>)
      [] value.t = "int" -> value
      [] OTHER -> int_of_float(value)

\* x == y for two floats neither of which is a nan.
floats_equal(x, y) ==
    IF is_finite(x) /\ is_finite(y)
    THEN x.digits = y.digits /\ x.point = y.point
            /\ (x.neg = y.neg \/ x.digits = <<>>)
    ELSE ~is_finite(x) /\ ~is_finite(y) /\ x.nonfinite = y.nonfinite

\* a is b or a == b, for two hashable values: what a set, a tuple and a
\* frozenset ask of their elements.  Numbers compare by their exact value
\* across bool, int and float, a nan being only itself, so that an int
\* equals a float only when the float is whole and is that int; tuples
\* compare element by
\* element, frozensets as sets; an attribute bag is only itself; anything
\* else compares by type and content.
RECURSIVE py_same(_, _)
py_same(a, b) ==
    IF {a.t, b.t} \subseteq {"bool", "int", "float"}
    THEN IF is_nan(a) \/ is_nan(b) THEN a = b
         ELSE IF a.t = "float" /\ b.t = "float" THEN floats_equal(a, b)
         ELSE /\ a.t = "float" => float_is_integer(a)
              /\ b.t = "float" => float_is_integer(b)
              /\ integer_of(a) = integer_of(b)
    ELSE IF a.t = "tuple" /\ b.t = "tuple"
    THEN /\ Len(a.elems) = Len(b.elems)
         /\ \A i \in DOMAIN a.elems : py_same(a.elems[i], b.elems[i])
    ELSE IF a.t = "frozenset" /\ b.t = "frozenset"
    THEN /\ \A i \in DOMAIN a.elems : \E j \in DOMAIN b.elems :
                py_same(a.elems[i], b.elems[j])
         /\ \A j \in DOMAIN b.elems : \E i \in DOMAIN a.elems :
                py_same(a.elems[i], b.elems[j])
    ELSE a = b

\* a == b for two hashable values: a nan equals nothing, itself included.
py_eq(a, b) == ~is_nan(a) /\ ~is_nan(b) /\ py_same(a, b)

\* The members of the set a set comprehension over elems builds: an element
\* that is, or equals, one already added is not added.
set_of(elems) ==
    {elems[i] : i \in {i \in DOMAIN elems :
                          \A j \in 1..(i - 1) : ~py_same(elems[j], elems[i])}}

\* repr of a character of a str inside the quote q.
repr_char(c, q) ==
    CASE c = "\\" -> <<"\\", "\\">>
      [] c = q -> <<"\\", c>>
      [] c = "\t" -> <<"\\", "t">>
      [] c = "\n" -> <<"\\", "n">>
      [] c = "\r" -> <<"\\", "r">>
      [] c = VTab -> <<"\\", "x", "0", "b">>
      [] c = "\f" -> <<"\\", "x", "0", "c">>
      [] OTHER -> <<c>>

RECURSIVE repr_chars(_, _)
repr_chars(s, q) ==
    IF s = <<>> THEN <<>>
    ELSE IF Len(s) = 1 THEN repr_char(s[1], q)
    ELSE repr_chars(SubSeq(s, 1, Len(s) \div 2), q)
            \o repr_chars(SubSeq(s, Len(s) \div 2 + 1, Len(s)), q)

\* repr(s) for a str: in double quotes when s has a single quote and no
\* double quote.
str_repr(s) ==
    LET q == IF (\E i \in DOMAIN s : s[i] = "'")
                /\ ~(\E i \in DOMAIN s : s[i] = "\"")
             THEN "\"" ELSE "'"
    IN  <<q>> \o repr_chars(s, q) \o <<q>>

\* repr(value) raises: the value is, or holds, an int of more than
\* MaxStrDigits digits.
RECURSIVE repr_raises(_)
repr_raises(value) ==
    CASE value.t = "int" -> Len(value.digits) > MaxStrDigits
      [] value.t \in {"list", "tuple", "set", "frozenset"} ->
            \E i \in DOMAIN value.elems : repr_raises(value.elems[i])
      [] value.t = "dict" ->
            \E i \in DOMAIN value.items :
                repr_raises(value.items[i][1]) \/ repr_raises(value.items[i][2])
      [] OTHER -> FALSE

\* The text of repr(value), when it does not raise.
RECURSIVE repr_text(_)
repr_text(value) ==
    LET repr_all(elems) == [i \in DOMAIN elems |-> repr_text(elems[i])]
    IN  CASE value.t = "None" -> <<"N", "o", "n", "e">>
          [] value.t = "bool" ->
                IF value.b THEN <<"T", "r", "u", "e">> ELSE <<"F", "a", "l", "s", "e">>
          [] value.t = "int" -> (IF value.neg THEN <<"-">> ELSE <<>>) \o value.digits
          [] value.t = "float" -> float_repr(value)
          [] value.t = "str" -> str_repr(value.s)
          [] value.t = "bytes" -> <<"b">> \o str_repr(value.data)
          [] value.t = "date" ->
                <<"d", "a", "t", "e", "t", "i", "m", "e", ".", "d", "a", "t", "e", "(">>
                    \o str_join(<<",", " ">>, [i \in 1..3 |-> nat_str(value.ymd[i])])
                    \o <<")">>
          [] value.t = "datetime" ->
                LET fields == value.ymd \o (IF value.hms[3] = 0
                                            THEN SubSeq(value.hms, 1, 2)
                                            ELSE value.hms)
                IN  <<"d", "a", "t", "e", "t", "i", "m", "e", ".",
                      "d", "a", "t", "e", "t", "i", "m", "e", "(">>
                        \o str_join(<<",", " ">>,
                                    [i \in DOMAIN fields |-> nat_str(fields[i])])
                        \o <<")">>
          [] value.t = "list" ->
                <<"[">> \o str_join(<<",", " ">>, repr_all(value.elems)) \o <<"]">>
          [] value.t = "tuple" ->
                <<"(">> \o str_join(<<",", " ">>, repr_all(value.elems))
                    \o (IF Len(value.elems) = 1 THEN <<",">> ELSE <<>>) \o <<")">>
          [] value.t = "set" ->
                IF value.elems = <<>> THEN <<"s", "e", "t", "(", ")">>
                ELSE <<"{">> \o str_join(<<",", " ">>, repr_all(value.elems))
                         \o <<"}">>
          [] value.t = "frozenset" ->
                <<"f", "r", "o", "z", "e", "n", "s", "e", "t", "(">>
                    \o (IF value.elems = <<>> THEN <<>>
                        ELSE <<"{">> \o str_join(<<",", " ">>, repr_all(value.elems))
                                 \o <<"}">>)
                    \o <<")">>
          [] value.t = "dict" ->
                <<"{">>
                    \o str_join(<<",", " ">>,
                                [i \in DOMAIN value.items |->
                                    repr_text(value.items[i][1]) \o <<":", " ">>
                                        \o repr_text(value.items[i][2])])
                    \o <<"}">>
          [] value.t = "object" -> value.text

\* repr(value): the str, or ValueError.
py_repr(value) ==
    IF repr_raises(value) THEN Raise({ValueError}) ELSE Return(PyStr(repr_text(value)))

\* str(value): a str is itself, a date and a datetime have a text of their
\* own, anything else is its repr.
py_str(value) ==
    CASE value.t = "str" -> Return(value)
      [] value.t = "date" ->
            Return(PyStr(zero_pad(nat_str(value.ymd[1]), 4) \o <<"-">>
                            \o zero_pad(nat_str(value.ymd[2]), 2) \o <<"-">>
                            \o zero_pad(nat_str(value.ymd[3]), 2)))
      [] value.t = "datetime" ->
            Return(PyStr(zero_pad(nat_str(value.ymd[1]), 4) \o <<"-">>
                            \o zero_pad(nat_str(value.ymd[2]), 2) \o <<"-">>
                            \o zero_pad(nat_str(value.ymd[3]), 2) \o <<" ">>
                            \o zero_pad(nat_str(value.hms[1]), 2) \o <<":">>
                            \o zero_pad(nat_str(value.hms[2]), 2) \o <<":">>
                            \o zero_pad(nat_str(value.hms[3]), 2)))
      [] OTHER -> py_repr(value)

\* ----------------------------------------------------------------- coercion

\* raise TypeError(f"Cannot coerce {value!r} to ..."): the TypeError, or the
\* ValueError of repr(value).
cannot_coerce(value) ==
    IF py_repr(value).ok THEN Raise({TypeError}) ELSE Raise({ValueError})

\* Schema.coerce: the default, inherited by BytesSchema, MapSchema and
\* UnionSchema.
Schema_coerce(value) == Return(value)

\* NullSchema.coerce
NullSchema_coerce(value) ==
    IF value = PyNone THEN Return(PyNone) ELSE Raise({TypeError})

\* BoolSchema.coerce
BoolSchema_coerce(value) ==
    IF value.t = "bool" THEN Return(value)
    ELSE IF value.t \in {"int", "float"} THEN Return(PyBool(truthy(value)))
    ELSE IF value.t = "str"
    THEN LET v == str_lower(str_strip(value.s))
         IN  IF v \in {<<"t", "r", "u", "e">>, <<"t">>, <<"1">>,
                       <<"y", "e", "s">>, <<"y">>}
             THEN Return(PyBool(TRUE))
             ELSE IF v \in {<<"f", "a", "l", "s", "e">>, <<"f">>, <<"0">>,
                            <<"n", "o">>, <<"n">>}
             THEN Return(PyBool(FALSE))
             ELSE Raise({TypeError})
    ELSE cannot_coerce(value)

\* An Int coercion without the guard against bool, which is an int.
IntSchema_coerce_bool_as_int(value) ==
    IF value.t \in {"bool", "int"} THEN Return(value)
    ELSE IF value.t = "float" /\ float_is_integer(value) THEN Return(int_of_float(value))
    ELSE IF value.t = "str"
    THEN LET s == str_strip(value.s)
         IN  IF str_isdigit(s) \/ (str_startswith(s, <<"-">>) /\ str_isdigit(Tail(s)))
             THEN (IF int_of_str(s).ok THEN Return(int_of_str(s).val)
                   ELSE Raise({ValueError}))
             ELSE Raise({TypeError})
    ELSE cannot_coerce(value)

\* IntSchema.coerce
IntSchema_coerce(value) ==
    IF value.t = "bool" THEN Raise({TypeError})
    ELSE IF value.t = "int" THEN Return(value)
    ELSE IF value.t = "float" /\ float_is_integer(value) THEN Return(int_of_float(value))
    ELSE IF value.t = "str"
    THEN LET s == str_strip(value.s)
         IN  IF str_isdigit(s) \/ (str_startswith(s, <<"-">>) /\ str_isdigit(Tail(s)))
             THEN (IF int_of_str(s).ok THEN Return(int_of_str(s).val)
                   ELSE Raise({ValueError}))
             ELSE Raise({TypeError})
    ELSE cannot_coerce(value)

\* FloatSchema.coerce
FloatSchema_coerce(value) ==
    IF value.t = "bool" THEN Raise({TypeError})
    ELSE IF value.t = "int" THEN float_of_int(value)
    ELSE IF value.t = "float" THEN Return(value)
    ELSE IF value.t = "str"
    THEN LET f == float_of_str(str_strip(value.s))
         IN  IF f.ok /\ is_finite(f.val) THEN Return(f.val)
             ELSE Raise({TypeError})
    ELSE cannot_coerce(value)

\* StringSchema.coerce
StringSchema_coerce(value) ==
    IF value = PyNone THEN Return(PyNone) ELSE py_str(value)

\* DateSchema.coerce
DateSchema_coerce(value) ==
    IF value.t = "date" THEN Return(value) ELSE cannot_coerce(value)

\* DateTimeSchema.coerce
DateTimeSchema_coerce(value) ==
    IF value.t = "datetime" THEN Return(value) ELSE cannot_coerce(value)

RECURSIVE coerce(_, _)

\* The comprehensions of ArraySchema.coerce: each element coerced in turn
\* and, for a set, hashed as it is added; the first exception ends the call.
RECURSIVE coerce_each(_, _, _)
coerce_rest(first, items, elems, hashed) ==
    IF ~first.ok THEN first
    ELSE LET rest == coerce_each(items, elems, hashed)
         IN  IF ~rest.ok THEN rest ELSE Return(first.val \o rest.val)

coerce_each(items, elems, hashed) ==
    IF elems = <<>> THEN Return(<<>>)
    ELSE IF Len(elems) = 1
    THEN LET r == coerce(items, elems[1])
         IN  IF ~r.ok THEN r
             ELSE IF hashed /\ ~py_hashable(r.val) THEN Raise({TypeError})
             ELSE Return(<<r.val>>)
    ELSE coerce_rest(coerce_each(items, SubSeq(elems, 1, Len(elems) \div 2), hashed),
                     items, SubSeq(elems, Len(elems) \div 2 + 1, Len(elems)), hashed)

\* ArraySchema.coerce
ArraySchema_coerce(self, value) ==
    IF self.kind = KindList /\ value.t = "list"
    THEN LET r == coerce_each(self.items, value.elems, FALSE)
         IN  IF r.ok THEN Return(PyList(r.val)) ELSE r
    ELSE IF self.kind = KindTuple /\ value.t \in {"list", "tuple"}
    THEN LET r == coerce_each(self.items, value.elems, FALSE)
         IN  IF r.ok THEN Return(PyTuple(r.val)) ELSE r
    ELSE IF self.kind = KindSet /\ value.t \in {"list", "set", "tuple"}
    THEN LET r == coerce_each(self.items, value.elems, TRUE)
         IN  IF r.ok THEN Return(PyBuiltSet(set_of(r.val))) ELSE r
    ELSE Raise({TypeError})

\* k in value and value[k] is not None
present(items, k) ==
    dict_has(items, PyStr(k)) /\ dict_get(items, PyStr(k)) # PyNone

\* The body of ObjectSchema.coerce's loop, for the property k: out[k], or
\* what is raised.
property_outcome(self, items, k) ==
    IF present(items, k)
    THEN coerce(self.properties[k], dict_get(items, PyStr(k)))
    ELSE IF k \in self.optional THEN Return(PyNone)
    ELSE Raise({KeyError(k)})

\* ObjectSchema.coerce.  The loop runs over the properties in the dict's
\* order, which the model does not fix: the call raises what the first
\* failing property raises, and any failing property may come first.
ObjectSchema_coerce(self, value) ==
    IF value.t \notin {"dict", "object"} THEN Raise({TypeError})
    ELSE LET items == IF value.t = "dict" THEN value.items ELSE vars(value).items
             out(k) == property_outcome(self, items, k)
             failing == {k \in DOMAIN self.properties : ~out(k).ok}
         IN  IF failing = {}
             THEN Return(PyBuiltDict({<<PyStr(k), out(k).val>> :
                                        k \in DOMAIN self.properties}))
             ELSE Raise(UNION {out(k).errs : k \in failing})

\* schema.coerce(value), dispatched on the class of schema.
coerce(schema, value) ==
    CASE schema.tag = "Null" -> NullSchema_coerce(value)
      [] schema.tag = "Bool" -> BoolSchema_coerce(value)
      [] schema.tag = "Int" -> IntSchema_coerce(value)
      [] schema.tag = "Float" -> FloatSchema_coerce(value)
      [] schema.tag = "String" -> StringSchema_coerce(value)
      [] schema.tag = "Date" -> DateSchema_coerce(value)
      [] schema.tag = "DateTime" -> DateTimeSchema_coerce(value)
      [] schema.tag = "Array" -> ArraySchema_coerce(schema, value)
      [] schema.tag = "Object" -> ObjectSchema_coerce(schema, value)
      [] OTHER -> Schema_coerce(value)

\* coerce_to_schema
RECURSIVE coerce_to_schema(_, _)
RECURSIVE try_variants(_, _)
try_variants(value, variants) ==
    IF variants = <<>> THEN Raise({TypeError})
    ELSE LET r == coerce_to_schema(value, Head(variants))
         IN  IF r.ok THEN r ELSE try_variants(value, Tail(variants))

coerce_to_schema(value, schema) ==
    IF schema.tag = "Union" THEN try_variants(value, schema.variants)
    ELSE coerce(schema, value)

\* -------------------------------------------------------------- the sessions

\* The state of a caller of the library.
\*   loop     the locals of the deduce_schema call in progress
\*   samples  the samples that call has consumed (tracked in SpecDeduce only)
\*   fed      how many samples have been consumed in all
\*   held     the schema the caller holds (NoSchema: none yet)
\*   last     the last merge call: its operands and what it returned
\*   call     the last coerce_to_schema call: its arguments and its outcome
VARIABLES loop, samples, fed, held, last, call

svars == <<loop, samples, fed, held, last, call>>

MaxSamples == 3
MaxTracked == 3

Int_1 == PyInt(FALSE, <<"1">>)
Int_5 == PyInt(FALSE, <<"5">>)
Float_2_0 == PyFloat(FALSE, <<"2">>, 1)
Float_2_5 == PyFloat(FALSE, <<"2", "5">>, 1)
Text_abc == <<"a", "b", "c">>
Text_42 == <<"4", "2">>
Key_a == PyStr(<<"a">>)
Key_b == PyStr(<<"b">>)

\* The samples of the merge sessions: one value for each shape of schema.
MergeSamples ==
    { PyNone, Int_1, Float_2_5, PyStr(Text_abc),
      PyList(<<Int_1>>), PyList(<<Float_2_5>>),
      PyTuple(<<Int_1>>),
      PyDict(<<<<Key_a, Int_1>>>>),
      PyDict(<<<<Key_b, PyNone>>>>),
      PyDict(<<<<Key_a, Float_2_5>>, <<Key_b, PyStr(Text_abc)>>>>),
      PyDict(<<<<Int_1, PyStr(Text_abc)>>>>),
      PyDict(<<<<Float_2_5, PyNone>>>>) }

NoMerge == [called |-> FALSE]
NoCall == [called |-> FALSE]

Init ==
    /\ loop = deduce_start
    /\ samples = <<>>
    /\ fed = 0
    /\ held = NoSchema
    /\ last = NoMerge
    /\ call = NoCall

\* deduce_schema's loop takes the next sample.
Sample(v) ==
    /\ fed < MaxSamples
    /\ loop' = deduce_step(loop, v)
    /\ fed' = fed + 1
    /\ last' = NoMerge
    /\ UNCHANGED <<samples, held, call>>

\* deduce_schema returns and the caller, holding no schema yet, keeps the
\* one returned.
Keep ==
    /\ held = NoSchema
    /\ held' = deduce_return(loop)
    /\ loop' = deduce_start
    /\ last' = NoMerge
    /\ UNCHANGED <<samples, fed, call>>

\* deduce_schema returns and the caller merges the schema it holds with the
\* one returned, both ways round, and the one it holds with itself; it then
\* holds held.merge(returned).
Merge ==
    /\ held # NoSchema
    /\ LET returned == deduce_return(loop)
       IN  /\ last' = [called |-> TRUE, a |-> held, b |-> returned,
                       ab |-> merge(held, returned),
                       ba |-> merge(returned, held),
                       aa |-> merge(held, held)]
           /\ held' = merge(held, returned)
    /\ loop' = deduce_start
    /\ UNCHANGED <<samples, fed, call>>

Next ==
    \/ \E v \in MergeSamples : Sample(v)
    \/ Keep
    \/ Merge

Spec == Init /\ [][Next]_svars

\* ------------------------------------------------------ the merge algebra

\* The schemas of the state: the one the caller holds, the one the loop has
\* reached, and those the last merge call returned.
Held ==
    (IF held = NoSchema THEN <<>> ELSE <<held>>)
    \o (IF loop.merged = NoSchema THEN <<>> ELSE <<loop.merged>>)
    \o (IF last.called THEN <<last.ba, last.aa>> ELSE <<>>)

\* The nodes of the schema tree s, s first.
RECURSIVE Nodes(_)
RECURSIVE NodesOfAll(_)
NodesOfAll(schemas) ==
    IF schemas = <<>> THEN <<>>
    ELSE Nodes(Head(schemas)) \o NodesOfAll(Tail(schemas))

Nodes(s) ==
    <<s>> \o
    CASE s.tag = "Array" -> Nodes(s.items)
      [] s.tag = "Map" -> Nodes(s.key) \o Nodes(s.value)
      [] s.tag = "Object" ->
            LET ks == sorted_keys(DOMAIN s.properties)
            IN  NodesOfAll([i \in DOMAIN ks |-> s.properties[ks[i]]])
      [] s.tag = "Union" -> NodesOfAll(s.variants)
      [] OTHER -> <<>>

EveryNode(schemas, P(_)) ==
    LET ns == NodesOfAll(schemas) IN \A i \in DOMAIN ns : P(ns[i])

SomeNode(schemas, P(_)) ==
    LET ns == NodesOfAll(schemas) IN \E i \in DOMAIN ns : P(ns[i])

IsUnion(s) == s.tag = "Union"

\* C2: merge is commutative up to the canonical representation: a.merge(b)
\* and b.merge(a) have the same schema_repr, for the schemas a and b the
\* caller obtained from deduce_schema and from earlier merges.
MergeCommutes ==
    last.called => schema_repr(last.ab) = schema_repr(last.ba)

\* C2's case: a merge of two different schemas, one of them a Union, an
\* Array, a Map or an Object, that returned a Union.
MergeCommutesWitness ==
    /\ last.called
    /\ last.a # last.b
    /\ last.a.tag \in {"Union", "Array", "Map", "Object"}
    /\ last.ab.tag = "Union"
    /\ Len(last.ab.variants) >= 3

\* C3: merge is idempotent: s.merge(s) is structurally equal to s.
MergeIdempotent ==
    last.called => last.aa = last.a

\* C3's case: s is an Object with an optional and a required field, or a
\* Union, merged with itself.
MergeIdempotentWitness ==
    /\ last.called
    /\ last.aa = last.a
    /\ \/ /\ last.a.tag = "Object"
          /\ last.a.optional # {}
          /\ DOMAIN last.a.properties \ last.a.optional # {}
       \/ /\ last.a.tag = "Array"
          /\ last.a.items.tag = "Union"

\* A Union node is well formed: at least two variants, none of them a
\* Union, their canonical representations pairwise distinct.
UnionWellFormed(s) ==
    s.tag = "Union" =>
        /\ Len(s.variants) >= 2
        /\ \A i \in DOMAIN s.variants : s.variants[i].tag # "Union"
        /\ \A i, j \in DOMAIN s.variants :
                i # j => schema_repr(s.variants[i]) # schema_repr(s.variants[j])

\* C4: every Union node, at any depth, of every schema deduce_schema or
\* merge produced is well formed.
UnionsWellFormed ==
    EveryNode(Held, UnionWellFormed)

\* C4's case: a merge one of whose operands was a Union returned a Union
\* of more variants, and a Union nested in an Array or Object was produced.
UnionsWellFormedWitness ==
    /\ last.called
    /\ last.a.tag = "Union"
    /\ last.ab.tag = "Union"
    /\ Len(last.ab.variants) > Len(last.a.variants)
    /\ \E i \in DOMAIN last.ab.variants :
            /\ last.ab.variants[i].tag \in {"Array", "Object", "Map"}
            /\ SomeNode(<<last.ab.variants[i]>>, IsUnion)

HasVariant(s, tag) == \E i \in DOMAIN s.variants : s.variants[i].tag = tag

NotIntAndFloat(s) ==
    s.tag = "Union" => ~(HasVariant(s, "Int") /\ HasVariant(s, "Float"))

\* C5: numeric widening: no Union node of a produced schema has both Int
\* and Float among its variants; merge(Int, Float) and merge(Float, Int)
\* are Float, merge(Int, Int) is Int, and merging Int with a Union that
\* holds Float, or Float with one that holds Int, leaves Float and no Int.
NumericWidening ==
    /\ EveryNode(Held, NotIntAndFloat)
    /\ last.called =>
        /\ {last.a, last.b} = {IntSchema, FloatSchema} =>
                last.ab = FloatSchema /\ last.ba = FloatSchema
        /\ last.a = IntSchema => last.aa = IntSchema
        /\ \A x \in {"ab", "ba"} :
                LET u == IF last.a.tag = "Union" THEN last.a ELSE last.b
                    p == IF last.a.tag = "Union" THEN last.b ELSE last.a
                IN  /\ u.tag = "Union"
                    /\ \/ p = IntSchema /\ HasVariant(u, "Float")
                       \/ p = FloatSchema /\ HasVariant(u, "Int")
                    => /\ last[x].tag = "Union" => /\ HasVariant(last[x], "Float")
                                                   /\ ~HasVariant(last[x], "Int")
                       /\ last[x].tag # "Union" => last[x] = FloatSchema

\* C5's case: Float merged with a Union that holds Int.
NumericWideningWitness ==
    /\ last.called
    /\ last.a.tag = "Union"
    /\ HasVariant(last.a, "Int")
    /\ last.b = FloatSchema
    /\ last.ab.tag = "Union"
    /\ HasVariant(last.ab, "Float")

OptionalDeclared(s) ==
    s.tag = "Object" => s.optional \subseteq DOMAIN s.properties

\* C6: the merge of two Objects has the union of their property names, and
\* as optional the names only one of them has together with both optional
\* sets; so a field optional in an operand is optional in the result, and
\* every Object node of a produced schema has optional within its names.
ObjectMergeOptional ==
    /\ EveryNode(Held, OptionalDeclared)
    /\ last.called /\ last.a.tag = "Object" /\ last.b.tag = "Object" =>
        LET ka == DOMAIN last.a.properties
            kb == DOMAIN last.b.properties
        IN  /\ last.ab.tag = "Object"
            /\ DOMAIN last.ab.properties = ka \cup kb
            /\ last.ab.optional =
                    (ka \ kb) \cup (kb \ ka) \cup last.a.optional \cup last.b.optional
            /\ last.a.optional \cup last.b.optional \subseteq last.ab.optional

\* C6's case: two Objects were merged, a field optional in an operand is in
\* both, and another field is in one of them only.
ObjectMergeOptionalWitness ==
    /\ last.called
    /\ last.a.tag = "Object"
    /\ last.b.tag = "Object"
    /\ \E k \in last.a.optional \cup last.b.optional :
            k \in DOMAIN last.a.properties \cap DOMAIN last.b.properties
    /\ DOMAIN last.a.properties # DOMAIN last.b.properties

\* ------------------------------------------------------------------ coercion

Object_a5 == PyDict(<<<<Key_a, Int_5>>>>)
Object_a5_b == PyDict(<<<<Key_a, Int_5>>, <<Key_b, PyStr(Text_abc)>>>>)
Object_a_none == PyDict(<<<<Key_a, PyNone>>>>)
Object_a_abc == PyDict(<<<<Key_a, PyStr(Text_abc)>>>>)
Object_b_only == PyDict(<<<<Key_b, PyStr(Text_abc)>>>>)
Bag_a5 == PyObject(1, <<<<Key_a, Int_5>>>>, <<"<", "X", ">">>)

\* The samples the schemas of the coercion sessions are deduced from.
CoerceSamples ==
    { PyNone, Int_1, Float_2_5, Object_a5, Object_a5_b, Object_a_none,
      PyList(<<Int_1>>), PyList(<<PyNone>>) }

\* The values coerced.
CoerceValues ==
    { PyNone, PyBool(TRUE), PyBool(FALSE), Int_1, Float_2_0,
      Float_2_5, PyStr(Text_42), PyStr(Text_abc),
      Object_a5, Object_a5_b, Object_a_none, Object_a_abc, Object_b_only,
      PyDict(<<>>), Bag_a5,
      PyList(<<Int_1>>), PyList(<<PyStr(Text_abc)>>),
      PyTuple(<<Int_1>>) }

\* What the caller sees of a call: the value returned or the exception
\* raised.
Outcomes(r) == IF r.ok THEN {r} ELSE {[ok |-> FALSE, err |-> e] : e \in r.errs}

\* The caller coerces a value to the schema it holds.
Coerce(v) ==
    /\ held # NoSchema
    /\ \E o \in Outcomes(coerce_to_schema(v, held)) :
            call' = [called |-> TRUE, value |-> v, schema |-> held, outcome |-> o]
    /\ UNCHANGED <<loop, samples, fed, held, last>>

NextCoerce ==
    \/ \E v \in CoerceSamples : held = NoSchema /\ Sample(v)
    \/ Keep
    \/ \E v \in CoerceValues : Coerce(v)

SpecCoerce == Init /\ [][NextCoerce]_svars

\* The samples of the deduction sessions: a value of each kind inference
\* recognises.
DeduceSamples ==
    { PyNone, PyBool(TRUE), Int_1, Float_2_5, PyStr(Text_abc),
      PyBytes(Text_abc), PyDate(2024, 1, 2), PyDateTime(2024, 1, 2, <<3, 4, 5>>),
      Object_a5, PyDict(<<<<Int_1, PyStr(Text_abc)>>>>),
      PyList(<<Int_1>>), PyList(<<Float_2_5>>), PyTuple(<<Int_1>>),
      PySet(<<Int_1>>), PyFrozenSet(<<Int_1>>), Bag_a5,
      PyList(<<PyList(<<Int_1>>), PyNone>>) }

\* deduce_schema's loop takes the next sample, which the caller keeps.
Record(v) ==
    /\ held = NoSchema
    /\ Len(samples) < MaxTracked
    /\ samples' = Append(samples, v)
    /\ loop' = deduce_step(loop, v)
    /\ fed' = fed + 1
    /\ UNCHANGED <<held, last, call>>

\* The caller coerces one of the samples to the schema deduced from them.
CoerceSample(i) ==
    /\ held # NoSchema
    /\ \E o \in Outcomes(coerce_to_schema(samples[i], held)) :
            call' = [called |-> TRUE, value |-> samples[i], schema |-> held,
                     outcome |-> o]
    /\ UNCHANGED <<loop, samples, fed, held, last>>

NextDeduce ==
    \/ \E v \in DeduceSamples : Record(v)
    \/ Keep
    \/ \E i \in DOMAIN samples : CoerceSample(i)

SpecDeduce == Init /\ [][NextDeduce]_svars

\* C1: deduce_schema does not depend on the order of the samples: every
\* permutation of a sample sequence gives a schema with the same canonical
\* representation.
FoldOrderIndependent ==
    held # NoSchema /\ samples # <<>> =>
        \A p \in Permutations(DOMAIN samples) :
            schema_repr(deduce_schema([i \in DOMAIN samples |-> samples[p[i]]]))
                = schema_repr(held)

\* C10: a schema deduced from samples accepts each of them: coerce_to_schema
\* of a sample to that schema returns.
SamplesAccepted ==
    call.called /\ (\E i \in DOMAIN samples : samples[i] = call.value)
            /\ call.schema = deduce_schema(samples) =>
        call.outcome.ok

\* The value of the property k in the dict or attribute bag behind items.
item(items, k) == dict_get(items, PyStr(k))

\* The value of the property k in the dict ObjectSchema.coerce returned.
built_item(out, k) == (CHOOSE p \in out.pairs : p[1] = PyStr(k))[2]

\* The items of a value ObjectSchema.coerce accepts.
items_of(value) == IF value.t = "dict" THEN value.items ELSE vars(value).items

\* Every variant of the Union u rejects the value v.
AllReject(u, v) ==
    \A i \in DOMAIN u.variants : ~coerce_to_schema(v, u.variants[i]).ok

\* The Union rule decides the element v of a call that returned out: if
\* every variant of u rejects v the call failed, and otherwise the element
\* of the result is what the first accepting variant gives.
UnionRuleDecides(u, v, ok, out) ==
    IF AllReject(u, v) THEN ~ok
    ELSE ok => out = try_variants(v, u.variants).val

\* C7: the Union rule applies wherever a Union occurs in the schema given to
\* coerce_to_schema, as the schema itself, as an Array's item schema and as
\* an Object's property schema: the element is coerced by the first variant,
\* in stored order, that accepts it, and the call fails if none does.
UnionRuleEverywhere ==
    call.called =>
        LET s == call.schema
            v == call.value
            o == call.outcome
        IN  /\ s.tag = "Union" =>
                UnionRuleDecides(s, v, o.ok, IF o.ok THEN o.val ELSE v)
            /\ s.tag = "Array" /\ s.items.tag = "Union"
                    /\ s.kind \in {KindList, KindTuple}
                    /\ v.t \in {"list", "tuple"} =>
                \A i \in DOMAIN v.elems :
                    UnionRuleDecides(s.items, v.elems[i], o.ok,
                                     IF o.ok THEN o.val.elems[i] ELSE v)
            /\ s.tag = "Object" /\ v.t \in {"dict", "object"} =>
                \A k \in DOMAIN s.properties :
                    s.properties[k].tag = "Union" /\ present(items_of(v), k) =>
                        UnionRuleDecides(s.properties[k], item(items_of(v), k), o.ok,
                                         IF o.ok THEN built_item(o.val, k) ELSE v)

\* C8: Object coercion treats each declared property by its presence.  When
\* the call returns, the dict returned has exactly the declared names, a
\* property present and not None holds what coercing its value to the
\* property's schema gives, and an absent or None optional property holds
\* None.  The call fails when coercing a present property's value to the
\* property's schema fails, and when a required property is absent; in
\* that case the error is a KeyError naming an absent required property.
ObjectFieldPresence ==
    call.called /\ call.schema.tag = "Object"
            /\ call.value.t \in {"dict", "object"} =>
        LET self == call.schema
            items == items_of(call.value)
            names == DOMAIN self.properties
            missing == {k \in names : ~present(items, k) /\ k \notin self.optional}
            o == call.outcome
        IN  /\ o.ok =>
                /\ o.val.t = "dict"
                /\ {p[1] : p \in o.val.pairs} = {PyStr(k) : k \in names}
                /\ Cardinality(o.val.pairs) = Cardinality(names)
                /\ \A k \in names :
                        IF present(items, k)
                        THEN LET field == coerce_to_schema(item(items, k),
                                                          self.properties[k])
                             IN  field.ok /\ built_item(o.val, k) = field.val
                        ELSE built_item(o.val, k) = PyNone
            /\ missing # {} =>
                    ~o.ok /\ o.err.exc = "KeyError" /\ o.err.field \in missing

\* C9: a bool is rejected by coercion to Int and to Float; to Int, an int
\* passes unchanged, a float with no fractional part gives the equal int,
\* a fractional float is rejected, the text "42" gives 42 and "abc" is
\* rejected.
BoolRejected ==
    call.called /\ call.schema \in {IntSchema, FloatSchema} =>
        /\ call.value.t = "bool" => ~call.outcome.ok
        /\ call.schema = IntSchema =>
            /\ call.value.t = "int" => call.outcome = Return(call.value)
            /\ call.value.t = "float" =>
                    /\ call.value = Float_2_0 => call.outcome = Return(PyInt(FALSE, <<"2">>))
                    /\ call.value = Float_2_5 => ~call.outcome.ok
            /\ call.value = PyStr(Text_42) => call.outcome = Return(PyInt(FALSE, Text_42))
            /\ call.value = PyStr(Text_abc) => ~call.outcome.ok

\* C9's case: True was coerced to Int.
BoolRejectedWitness ==
    /\ call.called
    /\ call.schema = IntSchema
    /\ call.value = PyBool(TRUE)
    /\ ~call.outcome.ok

====
